---- MODULE Spec2Model ----
(***************************************************************************)
(* Model of nlu_main.py: the metric/location/time extractor, the location  *)
(* sanitizer and splitter, the OpenWeatherMap metric resolver and the      *)
(* /get_metric handler.                                                    *)
(*                                                                         *)
(* A Python str is a sequence of characters.  A character is written as a  *)
(* one-character string when a TLA+ string can hold it and it is printable *)
(* (and as "\t", "\n", "\f", "\r"), or by its code point otherwise: "U+212A"  *)
(* is the Kelvin sign, "U+00A0" the no-break space, "U+0060" the grave     *)
(* accent.  Python's None is the value                                     *)
(* None below, a sequence no str can equal.                                *)
(***************************************************************************)
EXTENDS Integers, Sequences, FiniteSets

VARIABLES
    pc,              \* position of the operation in progress
    text,            \* extract_metrics: the text argument
    extraction,      \* extract_metrics: the returned dict
    location,        \* sanitize_location / split_locations / api_get_metric: the raw location argument
    sanitized,       \* sanitize_location: the returned value
    pieces,          \* split_locations: the returned list
    metric,          \* extract_metric_from_owm / api_get_metric: the metric argument
    owm,             \* extract_metric_from_owm: the provider response argument
    value,           \* extract_metric_from_owm: the returned value
    env,             \* the process environment: OWM_API_KEY and OWA
    api_key,         \* api_get_metric: local api_key
    raw_locations,   \* api_get_metric: local raw_locations
    clean_locations, \* api_get_metric: local clean_locations
    results,         \* api_get_metric: local results
    errors,          \* api_get_metric: local errors
    idx,             \* api_get_metric: index in clean_locations of the next loop iteration
    response,        \* api_get_metric: the body returned, or the detail of the HTTPException raised
    gateway_log,     \* every invocation of call_openweathermap_current, in order: its location,
                     \* whether it returned (ok) and whether the try body around it completed (resolved)
    status           \* api_get_metric: HTTP status of the response, 0 while running

vars == <<pc, text, extraction, location, sanitized, pieces, metric, owm, value,
          env, api_key, raw_locations, clean_locations, results, errors, idx, response,
          gateway_log, status>>

(***************************************************************************)
(* Bounds of the model.                                                    *)
(***************************************************************************)
MaxSanTokens == 4     \* tokens in an input of sanitize_location
MaxSplitTokens == 4   \* tokens in an input of split_locations
MaxTextTokens == 3    \* tokens in an input of extract_metrics
MaxQueryTokens == 3   \* tokens in the location of a /get_metric request

(***************************************************************************)
(* Strings.                                                                *)
(***************************************************************************)
None == << "None" >>

Min(S) == CHOOSE x \in S : \A y \in S : x <= y
Max(S) == CHOOSE x \in S : \A y \in S : x >= y

RECURSIVE Concat(_)
Concat(ss) == IF ss = <<>> THEN <<>> ELSE Head(ss) \o Concat(Tail(ss))

\* The strings made of at most n tokens of the vocabulary voc.
TokenStrings(voc, n) ==
    UNION { { Concat([i \in 1..k |-> voc[f[i]]]) : f \in [1..k -> 1..Len(voc)] } : k \in 0..n }

UpperChars == <<"A","B","C","D","E","F","G","H","I","J","K","L","M",
                "N","O","P","Q","R","S","T","U","V","W","X","Y","Z">>
LowerChars == <<"a","b","c","d","e","f","g","h","i","j","k","l","m",
                "n","o","p","q","r","s","t","u","v","w","x","y","z">>
DigitChars == {"0","1","2","3","4","5","6","7","8","9"}
Letters == {UpperChars[i] : i \in 1..26} \cup {LowerChars[i] : i \in 1..26}

\* characters named by code point
CapitalIDot == "U+0130"    \* LATIN CAPITAL LETTER I WITH DOT ABOVE
DotlessI == "U+0131"       \* LATIN SMALL LETTER DOTLESS I
LongS == "U+017F"          \* LATIN SMALL LETTER LONG S
KelvinSign == "U+212A"     \* KELVIN SIGN
CombiningDot == "U+0307"   \* COMBINING DOT ABOVE
ArabicThree == "U+0663"    \* ARABIC-INDIC DIGIT THREE

\* str.isspace / the regex class \s on str: every whitespace character of Unicode
Whitespace ==
    { "\t", "\n", "U+000B", "\f", "\r", "U+001C", "U+001D", "U+001E", "U+001F", " ", "U+0085",
       "U+00A0", "U+1680", "U+2000", "U+2001", "U+2002", "U+2003", "U+2004", "U+2005",
       "U+2006", "U+2007", "U+2008", "U+2009", "U+200A", "U+2028", "U+2029", "U+202F",
       "U+205F", "U+3000" }

\* the cased letters of U+0080..U+00FF: Latin1Upper[i].lower() = Latin1Lower[i]
Latin1Upper ==
    << "À", "Á", "Â", "Ã", "Ä", "Å", "Æ", "Ç", "È", "É", "Ê", "Ë", "Ì", "Í", "Î", "Ï", "Ð",
       "Ñ", "Ò", "Ó", "Ô", "Õ", "Ö", "Ø", "Ù", "Ú", "Û", "Ü", "Ý", "Þ" >>
Latin1Lower ==
    << "à", "á", "â", "ã", "ä", "å", "æ", "ç", "è", "é", "ê", "ë", "ì", "í", "î", "ï", "ð",
       "ñ", "ò", "ó", "ô", "õ", "ö", "ø", "ù", "ú", "û", "ü", "ý", "þ" >>

\* the other characters of the model's alphabet that str.isalnum accepts
OtherWordChars ==
    { "ª", "²", "³", "µ", "¹", "º", "¼", "½", "¾", "ß", "ÿ", "U+0130", "U+0131", "U+017F",
       "U+212A", "U+0663" }

\* the characters of the model's alphabet that are neither \w nor \s
NonWordChars ==
    { "U+0000", "U+0001", "U+0002", "U+0003", "U+0004", "U+0005", "U+0006", "U+0007",
       "U+0008", "U+000E", "U+000F", "U+0010", "U+0011", "U+0012", "U+0013", "U+0014",
       "U+0015", "U+0016", "U+0017", "U+0018", "U+0019", "U+001A", "U+001B", "!", "\"", "#",
       "$", "%", "&", "'", "(", ")", "*", "+", ",", "-", ".", "/", ":", ";", "<", "=", ">",
       "?", "@", "[", "\\", "]", "^", "U+0060", "{", "|", "}", "~", "U+007F", "U+0080", "U+0081",
       "U+0082", "U+0083", "U+0084", "U+0086", "U+0087", "U+0088", "U+0089", "U+008A",
       "U+008B", "U+008C", "U+008D", "U+008E", "U+008F", "U+0090", "U+0091", "U+0092",
       "U+0093", "U+0094", "U+0095", "U+0096", "U+0097", "U+0098", "U+0099", "U+009A",
       "U+009B", "U+009C", "U+009D", "U+009E", "U+009F", "¡", "¢", "£", "¤", "¥", "¦", "§",
       "¨", "©", "«", "¬", "U+00AD", "®", "¯", "°", "±", "´", "¶", "·", "¸", "»", "¿", "×",
       "÷", "U+0307" }

\* the regex class \w on str (str.isalnum or "_"), for the characters of the alphabet
WordChars ==
    Letters \cup DigitChars \cup {"_"} \cup {Latin1Upper[i] : i \in 1..Len(Latin1Upper)}
        \cup {Latin1Lower[i] : i \in 1..Len(Latin1Lower)} \cup OtherWordChars

\* The alphabet: U+0000..U+00FF, the whitespace of Unicode and the characters named
\* above.  IsWordChar and LowerChar are defined on the alphabet only; Whitespace,
\* IgnoreCaseFold and LocationClass hold for every character.
Alphabet == WordChars \cup NonWordChars \cup Whitespace

\* the regex class \w
IsWordChar(c) == CASE c \in WordChars -> TRUE
                   [] c \in NonWordChars \cup Whitespace -> FALSE

\* str.lower() of one character: a str of one or two characters
LowerChar(c) ==
    IF \E i \in 1..26 : UpperChars[i] = c
    THEN << LowerChars[CHOOSE i \in 1..26 : UpperChars[i] = c] >>
    ELSE IF \E i \in 1..Len(Latin1Upper) : Latin1Upper[i] = c
    THEN << Latin1Lower[CHOOSE i \in 1..Len(Latin1Upper) : Latin1Upper[i] = c] >>
    ELSE IF c = CapitalIDot THEN << "i", CombiningDot >>
    ELSE IF c = KelvinSign THEN << "k" >>
    ELSE CASE c \in Alphabet -> << c >>

\* str.lower()
Lower(s) == Concat([i \in 1..Len(s) |-> LowerChar(s[i])])

\* re.IGNORECASE: the character c matches the pattern character IgnoreCaseFold(c),
\* for the pattern characters of this program (ASCII lower case letters and " ")
IgnoreCaseFold(c) ==
    IF \E i \in 1..26 : UpperChars[i] = c
    THEN LowerChars[CHOOSE i \in 1..26 : UpperChars[i] = c]
    ELSE IF c \in {CapitalIDot, DotlessI} THEN "i"
    ELSE IF c = LongS THEN "s"
    ELSE IF c = KelvinSign THEN "k"
    ELSE c

\* str.strip(chars)
StripChars(s, chars) ==
    LET keep == {i \in 1..Len(s) : s[i] \notin chars}
    IN IF keep = {} THEN <<>> ELSE SubSeq(s, Min(keep), Max(keep))

\* str.strip()
Strip(s) == StripChars(s, Whitespace)

\* the literal lit matches s at index i
MatchExactAt(s, i, lit) ==
    /\ i >= 1
    /\ i + Len(lit) - 1 <= Len(s)
    /\ \A k \in 1..Len(lit) : s[i + k - 1] = lit[k]

\* the literal lit (lower case) matches s at index i under re.IGNORECASE
MatchLitAt(s, i, lit) ==
    /\ i >= 1
    /\ i + Len(lit) - 1 <= Len(s)
    /\ \A k \in 1..Len(lit) : IgnoreCaseFold(s[i + k - 1]) = lit[k]

\* the regex assertion \b holds just before index i of s (i in 1..Len(s)+1)
BoundaryAt(s, i) ==
    LET before == i > 1 /\ i - 1 <= Len(s) /\ IsWordChar(s[i - 1])
        after == i >= 1 /\ i <= Len(s) /\ IsWordChar(s[i])
    IN before # after

\* the index after the run of whitespace that starts at index i
RECURSIVE WsRunEnd(_, _)
WsRunEnd(s, i) ==
    IF i <= Len(s) /\ s[i] \in Whitespace THEN WsRunEnd(s, i + 1) ELSE i

(***************************************************************************)
(* sanitize_location                                                       *)
(***************************************************************************)
\* _TIME_TOKENS: each alternative is \b base (?: opt )? \b
TimeTok(base, opt) == [base |-> base, opt |-> opt]
_TIME_TOKENS == <<
    TimeTok(<<"n","o","w">>, <<>>),
    TimeTok(<<"t","o","d","a","y">>, <<>>),
    TimeTok(<<"y","e","s","t","e","r","d","a","y">>, <<>>),
    TimeTok(<<"l","a","s","t">>, <<>>),
    TimeTok(<<"t","h","i","s">>, <<>>),
    TimeTok(<<"n","e","x","t">>, <<>>),
    TimeTok(<<"w","e","e","k">>, <<>>),
    TimeTok(<<"m","o","n","t","h">>, <<>>),
    TimeTok(<<"j","a","n">>, <<"u","a","r","y">>),
    TimeTok(<<"f","e","b">>, <<"r","u","a","r","y">>),
    TimeTok(<<"m","a","r">>, <<"c","h">>),
    TimeTok(<<"a","p","r">>, <<"i","l">>),
    TimeTok(<<"m","a","y">>, <<>>),
    TimeTok(<<"j","u","n">>, <<"e">>),
    TimeTok(<<"j","u","l">>, <<"y">>),
    TimeTok(<<"a","u","g">>, <<"u","s","t">>),
    TimeTok(<<"s","e","p">>, <<"t","e","m","b","e","r">>),
    TimeTok(<<"o","c","t">>, <<"o","b","e","r">>),
    TimeTok(<<"n","o","v">>, <<"e","m","b","e","r">>),
    TimeTok(<<"d","e","c">>, <<"e","m","b","e","r">>) >>

\* length of the match of one alternative of _TIME_RE at index i, 0 for no match
TimeTokMatchLen(s, i, tok) ==
    IF ~BoundaryAt(s, i) THEN 0
    ELSE IF /\ tok.opt # <<>>
            /\ MatchLitAt(s, i, tok.base \o tok.opt)
            /\ BoundaryAt(s, i + Len(tok.base \o tok.opt))
         THEN Len(tok.base \o tok.opt)
    ELSE IF MatchLitAt(s, i, tok.base) /\ BoundaryAt(s, i + Len(tok.base))
         THEN Len(tok.base)
    ELSE 0

\* _TIME_RE at index i: the first alternative that matches
_TIME_RE(s, i) ==
    LET hits == {j \in 1..Len(_TIME_TOKENS) : TimeTokMatchLen(s, i, _TIME_TOKENS[j]) > 0}
    IN IF hits = {} THEN 0 ELSE TimeTokMatchLen(s, i, _TIME_TOKENS[Min(hits)])

\* _TIME_RE.sub("", s), scanning from index i
RECURSIVE TimeSubFrom(_, _)
TimeSubFrom(s, i) ==
    IF i > Len(s) THEN <<>>
    ELSE LET n == _TIME_RE(s, i)
         IN IF n > 0 THEN TimeSubFrom(s, i + n)
            ELSE <<s[i]>> \o TimeSubFrom(s, i + 1)

\* re.sub(r"[()]", " ", s)
SubParens(s) == [i \in 1..Len(s) |-> IF s[i] \in {"(", ")"} THEN " " ELSE s[i]]

\* re.sub(r"[.,;:]+$", "", s); s is stripped, so $ is the end of s
SubTrailingPunct(s) ==
    LET keep == {i \in 1..Len(s) : s[i] \notin {".", ",", ";", ":"}}
    IN IF keep = {} THEN <<>> ELSE SubSeq(s, 1, Max(keep))

\* re.sub(r"\s{2,}", " ", s), scanning from index i
RECURSIVE CollapseFrom(_, _)
CollapseFrom(s, i) ==
    IF i > Len(s) THEN <<>>
    ELSE IF WsRunEnd(s, i) >= i + 2
         THEN <<" ">> \o CollapseFrom(s, WsRunEnd(s, i))
         ELSE <<s[i]>> \o CollapseFrom(s, i + 1)

\* sanitize_location without the final "or None"
sanitize_location_no_or_none(raw_location) ==
    IF raw_location = None \/ raw_location = <<>> THEN None
    ELSE StripChars(Strip(CollapseFrom(Strip(TimeSubFrom(Strip(SubTrailingPunct(
             Strip(SubParens(raw_location)))), 1)), 1)), {","})

sanitize_location(raw_location) ==
    IF raw_location = None \/ raw_location = <<>> THEN None
    ELSE LET l1 == Strip(SubParens(raw_location))
             l2 == Strip(SubTrailingPunct(l1))
             l3 == Strip(TimeSubFrom(l2, 1))
             l4 == StripChars(Strip(CollapseFrom(l3, 1)), {","})
         IN IF l4 = <<>> THEN None ELSE l4

(***************************************************************************)
(* split_locations                                                         *)
(***************************************************************************)
\* length of the match of \s+and\s+|,|;|/|\| at index i, 0 for no match
SepMatchLen(s, i) ==
    LET j == WsRunEnd(s, i)
    IN IF /\ s[i] \in Whitespace
          /\ MatchLitAt(s, j, <<"a","n","d">>)
          /\ j + 3 <= Len(s)
          /\ s[j + 3] \in Whitespace
       THEN WsRunEnd(s, j + 3) - i
       ELSE IF s[i] \in {",", ";", "/", "|"} THEN 1 ELSE 0

\* re.split: the parts of s from index i on, cur being the part in progress
RECURSIVE SplitFrom(_, _, _)
SplitFrom(s, i, cur) ==
    IF i > Len(s) THEN <<cur>>
    ELSE LET n == SepMatchLen(s, i)
         IN IF n > 0 THEN <<cur>> \o SplitFrom(s, i + n, <<>>)
            ELSE SplitFrom(s, i + 1, Append(cur, s[i]))

\* split_locations returning p instead of p.strip()
split_locations_unstripped(raw_location) ==
    IF raw_location = None \/ raw_location = <<>> THEN <<>>
    ELSE SelectSeq(SplitFrom(raw_location, 1, <<>>), LAMBDA p : p # <<>> /\ Strip(p) # <<>>)

split_locations(raw_location) ==
    IF raw_location = None \/ raw_location = <<>> THEN <<>>
    ELSE LET parts == SplitFrom(raw_location, 1, <<>>)
             kept == SelectSeq(parts, LAMBDA p : p # <<>> /\ Strip(p) # <<>>)
         IN [k \in 1..Len(kept) |-> Strip(kept[k])]

(***************************************************************************)
(* extract_metrics                                                         *)
(***************************************************************************)
\* the character U+00B0 (degree sign)
DegreeSign == "°"

\* the keys of METRIC_KEYWORDS
temperature == <<"t","e","m","p","e","r","a","t","u","r","e">>
rainfall == <<"r","a","i","n","f","a","l","l">>
humidity == <<"h","u","m","i","d","i","t","y">>
wind_speed == <<"w","i","n","d","_","s","p","e","e","d">>
pressure == <<"p","r","e","s","s","u","r","e">>

\* a pattern of METRIC_KEYWORDS: lit (?: opt )?, inside \b ... \b when wb
Pat(lit, opt, wb) == [lit |-> lit, opt |-> opt, wb |-> wb]

\* the keys visited in sorted order instead
MetricOrderSorted == <<humidity, pressure, rainfall, temperature, wind_speed>>

\* the keys of METRIC_KEYWORDS in the order a loop over the dict visits them
MetricOrder == <<temperature, rainfall, humidity, wind_speed, pressure>>

METRIC_KEYWORDS(m) ==
    CASE m = temperature ->
            << Pat(<<"t","e","m","p">>, <<"e","r","a","t","u","r","e">>, FALSE), Pat(<<"h","o","t","t","e","r">>, <<>>, FALSE),
               Pat(<<"c","o","l","d","e","r">>, <<>>, FALSE), Pat(<<"d","e","g","r","e","e","s">>, <<>>, FALSE),
               Pat(<<DegreeSign, "c">>, <<>>, FALSE), Pat(<<DegreeSign, "f">>, <<>>, FALSE),
               Pat(<<"w","e","a","t","h","e","r">>, <<>>, TRUE) >>
      [] m = rainfall ->
            << Pat(<<"r","a","i","n">>, <<"f","a","l","l">>, FALSE), Pat(<<"p","r","e","c","i","p","i","t","a","t","i","o","n">>, <<>>, FALSE),
               Pat(<<"m","m"," ","o","f"," ","r","a","i","n">>, <<>>, FALSE), Pat(<<"r","a","i","n","y">>, <<>>, FALSE) >>
      [] m = humidity ->
            << Pat(<<"h","u","m","i","d","i","t","y">>, <<>>, FALSE), Pat(<<"h","u","m","i","d">>, <<>>, FALSE) >>
      [] m = wind_speed ->
            << Pat(<<"w","i","n","d">>, <<" ","s","p","e","e","d">>, FALSE), Pat(<<"w","i","n","d","s","p","e","e","d">>, <<>>, FALSE),
               Pat(<<"w","i","n","d"," ","g","u","s","t">>, <<>>, FALSE) >>
      [] m = pressure ->
            << Pat(<<"p","r","e","s","s","u","r","e">>, <<>>, FALSE), Pat(<<"h","p","a">>, <<>>, FALSE), Pat(<<"a","t","m">>, <<>>, FALSE) >>

\* the pattern p matches s at index i (no flags: characters compare exactly)
PatMatchAt(s, i, p) ==
    /\ p.wb => BoundaryAt(s, i)
    /\ \/ /\ MatchExactAt(s, i, p.lit \o p.opt)
          /\ p.wb => BoundaryAt(s, i + Len(p.lit \o p.opt))
       \/ /\ MatchExactAt(s, i, p.lit)
          /\ p.wb => BoundaryAt(s, i + Len(p.lit))

\* re.search(pat, s) finds a match
Search(p, s) == \E i \in 1..Len(s) : PatMatchAt(s, i, p)

\* the inner loop over one metric's patterns from the k-th on: append and break
RECURSIVE PatternLoop(_, _, _)
PatternLoop(m, text_low, k) ==
    IF k > Len(METRIC_KEYWORDS(m)) THEN <<>>
    ELSE IF Search(METRIC_KEYWORDS(m)[k], text_low) THEN <<m>>
    ELSE PatternLoop(m, text_low, k + 1)

\* the outer loop over METRIC_KEYWORDS.items() from the k-th metric on
RECURSIVE MetricLoop(_, _)
MetricLoop(text_low, k) ==
    IF k > Len(MetricOrder) THEN <<>>
    ELSE PatternLoop(MetricOrder[k], text_low, 1) \o MetricLoop(text_low, k + 1)

\* list(dict.fromkeys(found))
RECURSIVE DictFromKeys(_)
DictFromKeys(found) ==
    IF found = <<>> THEN <<>>
    ELSE LET rest == DictFromKeys(SubSeq(found, 1, Len(found) - 1))
             last == found[Len(found)]
         IN IF \E k \in 1..Len(rest) : rest[k] = last THEN rest ELSE Append(rest, last)

\* the character class of LOCATION_PATTERN under re.IGNORECASE: the characters it
\* lists and the characters that case-fold to one of them
LocationClass ==
    Letters \cup DigitChars \cup {" ", "-", "_", ","}
        \cup {CapitalIDot, DotlessI, LongS, KelvinSign}

\* the index after the run of LocationClass characters that starts at index i
RECURSIVE LocRunEnd(_, _)
LocRunEnd(s, i) ==
    IF i <= Len(s) /\ s[i] \in LocationClass THEN LocRunEnd(s, i + 1) ELSE i

\* LOCATION_PATTERN matches s at index i under re.IGNORECASE
LocMatchAt(s, i) ==
    /\ MatchLitAt(s, i, <<"i", "n", " ">>)
    /\ i + 3 <= Len(s)
    /\ s[i + 3] \in LocationClass

\* re.search(LOCATION_PATTERN, text, flags=re.IGNORECASE), then m.group(1).strip()
FindLocation(s) ==
    LET hits == {i \in 1..Len(s) : LocMatchAt(s, i)}
    IN IF hits = {} THEN None
       ELSE Strip(SubSeq(s, Min(hits) + 3, LocRunEnd(s, Min(hits) + 3) - 1))

\* the alternatives of the local regex months, in order
months == <<
    <<"j","a","n","u","a","r","y">>, <<"f","e","b","r","u","a","r","y">>, <<"m","a","r","c","h">>, <<"a","p","r","i","l">>, <<"m","a","y">>, <<"j","u","n","e">>, <<"j","u","l","y">>, <<"a","u","g","u","s","t">>, <<"s","e","p","t","e","m","b","e","r">>,
    <<"o","c","t","o","b","e","r">>, <<"n","o","v","e","m","b","e","r">>, <<"d","e","c","e","m","b","e","r">>, <<"t","o","d","a","y">>, <<"n","o","w">>, <<"y","e","s","t","e","r","d","a","y">>, <<"l","a","s","t"," ","w","e","e","k">>, <<"t","h","i","s"," ","w","e","e","k">> >>

\* re.search(months, text_low), then tm.group(1)
FindTime(text_low) ==
    LET hits == {i \in 1..Len(text_low) :
                    \E j \in 1..Len(months) : MatchExactAt(text_low, i, months[j])}
        at == Min(hits)
        alt == Min({j \in 1..Len(months) : MatchExactAt(text_low, at, months[j])})
    IN IF hits = {} THEN None ELSE months[alt]

extract_metrics(t) ==
    LET text_low == Lower(t)
        found == MetricLoop(text_low, 1)
    IN [metrics |-> DictFromKeys(found),
        location |-> FindLocation(t),
        time |-> FindTime(text_low)]

(***************************************************************************)
(* extract_metric_from_owm                                                 *)
(*                                                                         *)
(* A JSON value is a record with a tag t: a number (n, in tenths, so that  *)
(* 25 is 2.5 and 0 is both 0 and 0.0), null, an object (d, a function     *)
(* from its keys) or the empty list (JsonList).  Raised is the outcome of  *)
(* a call that raises.                                                     *)
(***************************************************************************)
Num(n) == [t |-> "num", n |-> n]
PyNone == [t |-> "null", n |-> 0]
Dict(d) == [t |-> "dict", d |-> d]
JsonList == [t |-> "list", n |-> 0]
Raised == [t |-> "raise", n |-> 0]

\* Python truth value of a JSON value: None, 0, 0.0, {} and [] are falsy
Truthy(v) ==
    CASE v.t = "null" -> FALSE
      [] v.t = "num" -> v.n # 0
      [] v.t = "dict" -> DOMAIN v.d # {}
      [] v.t = "list" -> FALSE

\* d.get(key, default) on a dict
Get(d, key, default) == IF key \in DOMAIN d THEN d[key] ELSE default

\* owm_json.get(outer, {}).get(inner); AttributeError when either receiver is no dict
GetNested(owm_json, outer, inner) ==
    IF owm_json.t # "dict" THEN Raised
    ELSE LET o == Get(owm_json.d, outer, Dict(<<>>))
         IN IF o.t # "dict" THEN Raised ELSE Get(o.d, inner, PyNone)

\* rain.get("1h") or rain.get("3h") or 0.0
RainOr(rain) ==
    IF Truthy(Get(rain, "1h", PyNone)) THEN Get(rain, "1h", PyNone)
    ELSE IF Truthy(Get(rain, "3h", PyNone)) THEN Get(rain, "3h", PyNone)
    ELSE Num(0)

extract_metric_from_owm(m, owm_json) ==
    IF m = temperature THEN GetNested(owm_json, "main", "temp")
    ELSE IF m = humidity THEN GetNested(owm_json, "main", "humidity")
    ELSE IF m = pressure THEN GetNested(owm_json, "main", "pressure")
    ELSE IF m = wind_speed THEN GetNested(owm_json, "wind", "speed")
    ELSE IF m = rainfall THEN
        IF owm_json.t # "dict" THEN Raised
        ELSE LET rain == Get(owm_json.d, "rain", PyNone)
             IN IF rain.t = "dict" THEN RainOr(rain.d) ELSE Num(0)
    ELSE PyNone

(***************************************************************************)
(* call_openweathermap_current                                             *)
(*                                                                         *)
(* net is what the network does with the one GET request: the request      *)
(* fails (transport), the provider answers with an error status            *)
(* (http_error), the answer is a success whose body is not JSON (bad_json),*)
(* or the body parses to net.json (ok).                                    *)
(***************************************************************************)
Net(kind, json) == [kind |-> kind, json |-> json]
Outcome(ok, exc, json) == [ok |-> ok, exc |-> exc, json |-> json]

call_openweathermap_current(loc, key, net) ==
    IF key = None \/ key = <<>> THEN Outcome(FALSE, "RuntimeError: API key is missing", PyNone)
    ELSE IF loc = None \/ loc = <<>> THEN Outcome(FALSE, "RuntimeError: Location is empty", PyNone)
    ELSE IF net.kind = "transport" THEN Outcome(FALSE, "ConnectionError", PyNone)
    ELSE IF net.kind = "http_error" THEN Outcome(FALSE, "HTTPError", PyNone)
    ELSE IF net.kind = "bad_json" THEN Outcome(FALSE, "JSONDecodeError", PyNone)
    ELSE Outcome(TRUE, "", net.json)

(***************************************************************************)
(* api_get_metric                                                          *)
(***************************************************************************)
\* a or b, for str-or-None operands
Or(a, b) == IF a = None \/ a = <<>> THEN b ELSE a

\* the membership test left out
MetricSupportedAlways(m) == TRUE

\* metric in METRIC_KEYWORDS
MetricSupported(m) == \E k \in 1..Len(MetricOrder) : MetricOrder[k] = m

\* the loop of lines 153-156 over raw_locations from the k-th on
RECURSIVE CleanLoop(_, _)
CleanLoop(raws, k) ==
    IF k > Len(raws) THEN <<>>
    ELSE LET cl == sanitize_location(raws[k])
         IN IF cl = None \/ cl = <<>> THEN CleanLoop(raws, k + 1)
            ELSE <<cl>> \o CleanLoop(raws, k + 1)

\* the try body of one loop iteration: the gateway call, then the resolution
TryBody(m, loc, key, net) ==
    LET got == call_openweathermap_current(loc, key, net)
        val == extract_metric_from_owm(m, got.json)
    IN IF ~got.ok THEN [ok |-> FALSE, exc |-> got.exc, value |-> PyNone]
       ELSE IF val = Raised THEN [ok |-> FALSE, exc |-> "AttributeError", value |-> PyNone]
       ELSE [ok |-> TRUE, exc |-> "", value |-> val]

\* the first except clause alone
CaughtHTTPErrorOnly(exc) == exc = "HTTPError"

\* the two except clauses: requests.HTTPError, then Exception
Caught(exc) == exc = "HTTPError" \/ TRUE

\* the result appended before the gateway call is known to have succeeded
ResultsAfterAlways(res, m, loc, out) ==
    Append(res, [metric |-> m, location |-> loc, value |-> out.value,
                 units |-> "metric (see provider)", provider |-> "openweathermap"])

\* results after one loop iteration
ResultsAfter(res, m, loc, out) ==
    IF out.ok
    THEN Append(res, [metric |-> m, location |-> loc, value |-> out.value,
                      units |-> "metric (see provider)", provider |-> "openweathermap"])
    ELSE res

\* errors after one loop iteration
ErrorsAfter(errs, loc, out) ==
    IF ~out.ok /\ Caught(out.exc) THEN Append(errs, [location |-> loc, error |-> out.exc])
    ELSE errs

\* the test of line 170 without "not results"
AggregateFailureAnyError(res, errs) == errs # <<>>

\* the test of line 170
AggregateFailure(res, errs) == res = <<>> /\ errs # <<>>

NoResponse == [results |-> <<>>, errors |-> <<>>, detail |-> ""]

(***************************************************************************)
(* Inputs.                                                                 *)
(***************************************************************************)
Paris == <<"P","a","r","i","s">>
Tokyo == <<"T","o","k","y","o">>
London == <<"L","o","n","d","o","n">>
Berlin == <<"B","e","r","l","i","n">>
Rome == <<"R","o","m","e">>
Nowhereville123 == <<"N","o","w","h","e","r","e","v","i","l","l","e","1","2","3">>

SanitizeVocabulary ==
    << <<"P">>, <<" ">>, <<",">>, <<"T","o","d","a","y">>, <<"(">>, <<".">>, <<"\t">> >>
SanitizeExamples ==
    { None,
      <<"P","a","r","i","s"," ","(","t","o","d","a","y",")">>,
      <<"N","e","w"," ","(","Y","o","r","k",")">>,
      <<"B","e","r","l","i","n"," ","n","e","x","t"," ","w","e","e","k">>,
      <<"j","a","n">>,
      <<"J","a","n","u","a","r","y"," ","5",";">>,
      <<"M","a","r","s","e","i","l","l","e"," ","i","n"," ","m","a","r","c","h",":">>,
      <<"P","a","r","i","s","\r">>,
      <<"W","E","E",KelvinSign>>,
      <<"j","a","n","é">>,
      <<"j","a","n",ArabicThree>>,
      <<"N","e","w","U+2003","U+000B","Y","o","r","k">>,
      <<"P","a","r","i","s","U+00A0","U+00A0",CapitalIDot,"n"," ","t","h",DotlessI,"s"," ","É","t","é">>,
      <<"l","a",LongS,"t"," ","w","e","e","k","U+0085",",">> }
SanitizeInputs == TokenStrings(SanitizeVocabulary, MaxSanTokens) \cup SanitizeExamples

ParisAndTokyoLondon == <<"P","a","r","i","s"," ","a","n","d"," ","T","o","k","y","o",","," ","L","o","n","d","o","n">>
SplitVocabulary ==
    << <<"x">>, <<" ">>, <<" ","A","n","D","\t">>, <<"a","n","d">>, <<",">>, <<"|">> >>
SplitExamples ==
    { None,
      ParisAndTokyoLondon,
      <<"O","s","l","o",";","R","o","m","e","/","B","e","r","n">>,
      <<"S","a","n","d","y"," ","a","n","d"," ","A","n","d","o","v","e","r">>,
      <<"a"," ","\r","a","n","d"," ","b">>,
      <<"O","s","l","o","U+00A0","a","n","d","U+2003","R","o","m","e","U+001C",";","\f">> }
SplitInputs == TokenStrings(SplitVocabulary, MaxSplitTokens) \cup SplitExamples

BerlinText == <<"H","o","w"," ","m","u","c","h"," ","r","a","i","n"," ","i","n"," ","B","e","r","l","i","n"," ","n","e","x","t"," ","w","e","e","k">>
TextVocabulary ==
    << <<"T","e","m","p">>, <<"r","a","i","n","y">>, <<"h","p","a">>, <<"w","e","a","t","h","e","r">>,
       <<" ">>, <<" ","i","n"," ","R","o","m","e">>, <<"N","o","w">> >>
TextExamples ==
    { BerlinText,
      <<"H","u","m","i","d","i","t","y"," ","a","n","d"," ","w","i","n","d"," ","s","p","e","e","d"," ","i","n"," ","O","s","l","o",","," ","B","e","r","g","e","n"," ","l","a","s","t"," ","w","e","e","k">>,
      <<"i","s"," ","i","t"," ","c","o","l","d","e","r"," ","(",DegreeSign,"C",")"," ","t","o","d","a","y">>,
      <<CapitalIDot,"n"," ","x">>,
      <<"R","a",DotlessI,"n","y"," ",DotlessI,"n"," ",KelvinSign,"y","o","t","o","-",LongS,"u","d",","," ","É","v","r","y">>,
      <<"M","é","t","é","o"," ","é","w","e","a","t","h","e","r"," ","I","N"," ","O","r","l","é","a","n","s"," ","T","O","D","A","Y">>,
      <<"W","E","A","T","H","E","R","U+00A0",CapitalIDot,"N","U+00A0","r","o","m","e">>,
      <<"h","u","m",CapitalIDot,"d","i","t","y"," ","w","e","a","t","h","e","r",ArabicThree," ",KelvinSign,"E","L","V","I","N">> }
TextInputs == TokenStrings(TextVocabulary, MaxTextTokens) \cup TextExamples

moisture == <<"m","o","i","s","t","u","r","e">>
ResolveMetrics == {temperature, rainfall, humidity, wind_speed, pressure, moisture}
Leaf1h == {Num(0), Num(25), Dict(<<>>), Dict([k \in {"mm"} |-> Num(25)]), JsonList}
Leaf3h == {Num(0), Num(10)}
RainDicts ==
    { Dict(<<>>) }
    \cup { Dict([k \in {"1h"} |-> a]) : a \in Leaf1h }
    \cup { Dict([k \in {"3h"} |-> b]) : b \in Leaf3h }
    \cup { Dict([k \in {"1h", "3h"} |-> IF k = "1h" THEN a ELSE b]) : a \in Leaf1h, b \in Leaf3h }
RainValues == RainDicts \cup {Num(5), PyNone}
MainValues ==
    { Dict(<<>>), PyNone,
      Dict([k \in {"temp", "humidity", "pressure"} |->
              IF k = "temp" THEN Num(215) ELSE IF k = "humidity" THEN Num(400) ELSE Num(10130)]) }
WindValues == { Dict([k \in {"speed"} |-> Num(31)]) }
OwmResponses ==
    { JsonList, Dict(<<>>) }
    \cup { Dict([k \in {"rain"} |-> r]) : r \in RainValues }
    \cup { Dict([k \in {"main", "wind"} |-> IF k = "main" THEN m ELSE w]) :
             m \in MainValues, w \in WindValues }
    \cup { Dict([k \in {"main", "wind", "rain"} |->
                   IF k = "main" THEN m ELSE IF k = "wind" THEN w ELSE r]) :
             m \in MainValues, w \in WindValues, r \in RainValues }

QueryVocabulary ==
    << Paris,
       <<" ","a","n","d"," ","N","o","w","h","e","r","e","v","i","l","l","e","1","2","3">>,
       <<",","t","o","d","a","y">>,
       <<" ","A","N","D"," ","(","R","o","m","e",")">>,
       <<"|">> >>
QueryLocations == TokenStrings(QueryVocabulary, MaxQueryTokens) \cup {None}
QueryMetrics == { <<"T","e","m","p","e","r","a","t","u","r","e">>, moisture }
Environments ==
    { [OWM_API_KEY |-> None, OWA |-> None],
      [OWM_API_KEY |-> <<"k">>, OWA |-> None],
      [OWM_API_KEY |-> <<>>, OWA |-> <<"a">>] }
GoodJson ==
    Dict([k \in {"main", "wind", "rain"} |->
            IF k = "main" THEN Dict([j \in {"temp"} |-> Num(215)])
            ELSE IF k = "wind" THEN Dict([j \in {"speed"} |-> Num(31)])
            ELSE Dict([j \in {"1h"} |-> Num(25)])])
NullMainJson == Dict([k \in {"main"} |-> PyNone])
NetOutcomes ==
    { Net("transport", PyNone), Net("http_error", PyNone), Net("bad_json", PyNone),
      Net("ok", GoodJson), Net("ok", NullMainJson) }

(***************************************************************************)
(* State machine.  Each entry point starts from its arguments, drawn from  *)
(* the input sets above; the variables of the other entry points rest.     *)
(***************************************************************************)
NoExtraction == [metrics |-> <<>>, location |-> None, time |-> None]

RestExtract == text = <<>> /\ extraction = NoExtraction
RestSanitize == sanitized = None
RestSplit == pieces = <<>>
RestResolve == owm = PyNone /\ value = PyNone
RestQuery ==
    /\ env = [OWM_API_KEY |-> None, OWA |-> None]
    /\ api_key = None
    /\ raw_locations = <<>>
    /\ clean_locations = <<>>
    /\ results = <<>>
    /\ errors = <<>>
    /\ idx = 1
    /\ response = NoResponse
    /\ gateway_log = <<>>
    /\ status = 0

InitSanitize ==
    /\ pc = "call_sanitize"
    /\ location \in SanitizeInputs
    /\ metric = <<>>
    /\ RestExtract /\ RestSanitize /\ RestSplit /\ RestResolve /\ RestQuery

InitSplit ==
    /\ pc = "call_split"
    /\ location \in SplitInputs
    /\ metric = <<>>
    /\ RestExtract /\ RestSanitize /\ RestSplit /\ RestResolve /\ RestQuery

InitExtract ==
    /\ pc = "call_extract"
    /\ text \in TextInputs
    /\ extraction = NoExtraction
    /\ location = None
    /\ metric = <<>>
    /\ RestSanitize /\ RestSplit /\ RestResolve /\ RestQuery

InitResolve ==
    /\ pc = "call_resolve"
    /\ metric \in ResolveMetrics
    /\ owm \in OwmResponses
    /\ value = PyNone
    /\ location = None
    /\ RestExtract /\ RestSanitize /\ RestSplit /\ RestQuery

InitQuery ==
    /\ pc = "request"
    /\ metric \in QueryMetrics
    /\ location \in QueryLocations
    /\ env \in Environments
    /\ api_key = None
    /\ raw_locations = <<>>
    /\ clean_locations = <<>>
    /\ results = <<>>
    /\ errors = <<>>
    /\ idx = 1
    /\ response = NoResponse
    /\ gateway_log = <<>>
    /\ status = 0
    /\ RestExtract /\ RestSanitize /\ RestSplit /\ RestResolve

queryVars == <<env, api_key, raw_locations, clean_locations, results, errors, idx,
               response, gateway_log, status>>

\* a call of sanitize_location(location)
Sanitize ==
    /\ pc = "call_sanitize"
    /\ sanitized' = sanitize_location(location)
    /\ pc' = "sanitize_done"
    /\ UNCHANGED <<text, extraction, location, pieces, metric, owm, value, queryVars>>

\* a call of split_locations(location)
Split ==
    /\ pc = "call_split"
    /\ pieces' = split_locations(location)
    /\ pc' = "split_done"
    /\ UNCHANGED <<text, extraction, location, sanitized, metric, owm, value, queryVars>>

\* api_extract: POST /extract_metric with the body {text}
ApiExtract ==
    /\ pc = "call_extract"
    /\ extraction' = extract_metrics(text)
    /\ pc' = "extract_done"
    /\ UNCHANGED <<text, location, sanitized, pieces, metric, owm, value, queryVars>>

\* a call of extract_metric_from_owm(metric, owm)
Resolve ==
    /\ pc = "call_resolve"
    /\ value' = extract_metric_from_owm(metric, owm)
    /\ pc' = "resolve_done"
    /\ UNCHANGED <<text, extraction, location, sanitized, pieces, metric, owm, queryVars>>

\* api_get_metric up to the loop over clean_locations (lines 144-160)
Validate ==
    /\ pc = "request"
    /\ LET m == Lower(Or(metric, <<>>))
           key == Or(env.OWM_API_KEY, Or(env.OWA, None))
           raws == split_locations(location)
           cleans == CleanLoop(raws, 1)
       IN /\ metric' = m
          /\ IF ~MetricSupported(m)
             THEN /\ status' = 400
                  /\ response' = [NoResponse EXCEPT !.detail = "Metric not supported"]
                  /\ pc' = "raised"
                  /\ UNCHANGED <<api_key, raw_locations, clean_locations>>
             ELSE IF location = None \/ location = <<>>
             THEN /\ status' = 400
                  /\ response' = [NoResponse EXCEPT !.detail = "location query param is required"]
                  /\ pc' = "raised"
                  /\ UNCHANGED <<api_key, raw_locations, clean_locations>>
             ELSE /\ api_key' = key
                  /\ raw_locations' = raws
                  /\ clean_locations' = cleans
                  /\ IF cleans = <<>>
                     THEN /\ status' = 400
                          /\ response' = [NoResponse EXCEPT !.detail = "No valid location found"]
                          /\ pc' = "raised"
                     ELSE /\ pc' = "loop"
                          /\ UNCHANGED <<status, response>>
    /\ results' = <<>>
    /\ errors' = <<>>
    /\ idx' = 1
    /\ UNCHANGED <<text, extraction, location, sanitized, pieces, owm, value, env, gateway_log>>

\* one iteration of the loop over clean_locations (lines 161-169)
ProcessCandidate ==
    /\ pc = "loop"
    /\ idx <= Len(clean_locations)
    /\ \E net \in NetOutcomes :
          LET loc == clean_locations[idx]
              got == call_openweathermap_current(loc, api_key, net)
              out == TryBody(metric, loc, api_key, net)
          IN /\ gateway_log' = Append(gateway_log,
                                       [location |-> loc, ok |-> got.ok, resolved |-> out.ok])
             /\ results' = ResultsAfter(results, metric, loc, out)
             /\ errors' = ErrorsAfter(errors, loc, out)
             /\ IF ~out.ok /\ ~Caught(out.exc)
                THEN /\ pc' = "raised"
                     /\ status' = 500
                     /\ response' = [NoResponse EXCEPT !.detail = out.exc]
                     /\ UNCHANGED idx
                ELSE /\ idx' = idx + 1
                     /\ UNCHANGED <<pc, status, response>>
    /\ UNCHANGED <<text, extraction, location, sanitized, pieces, metric, owm, value,
                   env, api_key, raw_locations, clean_locations>>

\* api_get_metric after the loop (lines 170-172)
Finish ==
    /\ pc = "loop"
    /\ idx > Len(clean_locations)
    /\ IF AggregateFailure(results, errors)
       THEN /\ status' = 502
            /\ response' = [results |-> <<>>, errors |-> errors, detail |-> "errors"]
            /\ pc' = "raised"
       ELSE /\ status' = 200
            /\ response' = [results |-> results, errors |-> errors, detail |-> ""]
            /\ pc' = "returned"
    /\ UNCHANGED <<text, extraction, location, sanitized, pieces, metric, owm, value,
                   env, api_key, raw_locations, clean_locations, results, errors, idx,
                   gateway_log>>

NextQuery == Validate \/ ProcessCandidate \/ Finish

SpecSanitize == InitSanitize /\ [][Sanitize]_vars
SpecSplit == InitSplit /\ [][Split]_vars
SpecExtract == InitExtract /\ [][ApiExtract]_vars
SpecResolve == InitResolve /\ [][Resolve]_vars
SpecQuery == InitQuery /\ [][NextQuery]_vars

\* sanitize_location on its own and inside api_get_metric
SpecLocation == (InitSanitize \/ InitQuery) /\ [][Sanitize \/ NextQuery]_vars

Init == InitSanitize \/ InitSplit \/ InitExtract \/ InitResolve \/ InitQuery
Next == Sanitize \/ Split \/ ApiExtract \/ Resolve \/ Validate \/ ProcessCandidate \/ Finish
Spec == Init /\ [][Next]_vars

(***************************************************************************)
(* Properties.                                                             *)
(***************************************************************************)
Locs(entries) == [k \in 1..Len(entries) |-> entries[k].location]

\* the elements of seq at the indices in S, from index k on, in order
RECURSIVE PickFrom(_, _, _)
PickFrom(seq, S, k) ==
    IF k > Len(seq) THEN <<>>
    ELSE (IF k \in S THEN <<seq[k]>> ELSE <<>>) \o PickFrom(seq, S, k + 1)

\* the strings of ps occur in s one after the other, from index k on
RECURSIVE OccursInOrder(_, _, _)
OccursInOrder(ps, s, k) ==
    \/ ps = <<>>
    \/ \E i \in k..Len(s) :
          /\ MatchExactAt(s, i, Head(ps))
          /\ OccursInOrder(Tail(ps), s, i + Len(Head(ps)))

\* api_get_metric has gone through the whole loop and answered
LoopFinished == pc = "returned" \/ (pc = "raised" /\ status = 502)

ClosedMetricSet == {temperature, rainfall, humidity, wind_speed, pressure}

\* C1: the candidates of clean_locations are the sanitized pieces of the
\* input location, in the order of the input string; when api_get_metric has
\* finished processing, every candidate has exactly one entry, in results or
\* in errors, so len(results) + len(errors) = len(clean_locations), and
\* results and errors each keep the order of the candidates.
C1_EveryCandidateOnce ==
    /\ (pc = "loop" /\ idx = 1) =>
          LET r == Len(raw_locations)
              san == [k \in 1..r |-> sanitize_location(raw_locations[k])]
          IN /\ clean_locations = PickFrom(san, {k \in 1..r : san[k] # None}, 1)
             /\ OccursInOrder(raw_locations, location, 1)
    /\ LoopFinished =>
          LET n == Len(clean_locations)
          IN /\ Len(results) + Len(errors) = n
             /\ \E S \in SUBSET (1..n) :
                   /\ PickFrom(clean_locations, S, 1) = Locs(results)
                   /\ PickFrom(clean_locations, (1..n) \ S, 1) = Locs(errors)

\* C1 witness: three candidates, some resolved and some failed
C1_Witness ==
    /\ LoopFinished
    /\ Len(clean_locations) = 3
    /\ Len(results) >= 1
    /\ Len(errors) >= 1

\* C2: a failure for one candidate (in the gateway call or in the metric
\* resolution) is recorded as one error entry for that location and never
\* stops processing: no exception leaves the handler, every
\* candidate gets its own gateway call, and if a candidate succeeds the request
\* returns normally with the results and the errors ('Paris and
\* Nowhereville123' with Paris succeeding returns one result and one error).
C2_FailureNeverAborts ==
    /\ status \in {0, 200, 400, 502}
    /\ pc = "loop" => Len(gateway_log) = idx - 1 /\ Len(results) + Len(errors) = idx - 1
    /\ LoopFinished =>
          LET n == Len(clean_locations)
              failed == {k \in 1..Len(gateway_log) : ~gateway_log[k].resolved}
          IN /\ Locs(gateway_log) = clean_locations
             /\ PickFrom(clean_locations, failed, 1) = Locs(errors)
             /\ PickFrom(clean_locations, (1..n) \ failed, 1) = Locs(results)
             /\ results # <<>> =>
                   /\ pc = "returned"
                   /\ status = 200
                   /\ response.results = results
                   /\ response.errors = errors
             /\ (/\ location = Paris \o <<" ","a","n","d"," ">> \o Nowhereville123
                 /\ gateway_log[1].resolved
                 /\ ~gateway_log[2].ok)
                => /\ status = 200
                   /\ Locs(response.results) = <<Paris>>
                   /\ Locs(response.errors) = <<Nowhereville123>>

\* C2 witness: the second of three candidates fails and the third is still
\* called and resolved
C2_Witness ==
    /\ pc = "returned"
    /\ Len(gateway_log) = 3
    /\ gateway_log[1].resolved
    /\ ~gateway_log[2].ok
    /\ gateway_log[3].resolved
    /\ Len(response.results) = 2
    /\ Len(response.errors) = 1

\* C3: after all candidates are processed the handler raises 502 exactly when
\* results is empty and errors is not, carrying one error per candidate; in
\* every other case it returns results and errors together, so a normal return
\* holds at least one result; when every gateway call fails the request fails
\* with 502.
C3_AggregateFailure ==
    (pc \in {"returned", "raised"} /\ status # 400) =>
        /\ status = 502 <=> (results = <<>> /\ errors # <<>>)
        /\ status = 502 =>
              /\ pc = "raised"
              /\ response.errors = errors
              /\ Locs(response.errors) = clean_locations
        /\ status # 502 =>
              /\ pc = "returned"
              /\ status = 200
              /\ response.results = results
              /\ response.errors = errors
              /\ Len(response.results) >= 1
        /\ (\A k \in 1..Len(gateway_log) : ~gateway_log[k].ok) =>
              /\ status = 502
              /\ Len(response.errors) = Len(clean_locations)

\* C3 witness: every one of several candidates failed
C3_Witness ==
    /\ pc = "raised"
    /\ status = 502
    /\ Len(response.errors) >= 2

\* C4: a request rejected for a precondition (metric outside the closed set,
\* missing or empty location, no candidate left after sanitization) is
\* answered 400 before call_openweathermap_current is invoked for any location.
C4_RejectBeforeGateway ==
    /\ status = 400 => gateway_log = <<>>
    /\ (/\ pc # "request"
        /\ \/ metric \notin ClosedMetricSet
           \/ location = None
           \/ location = <<>>
           \/ clean_locations = <<>>)
       => /\ pc = "raised"
          /\ status = 400
          /\ gateway_log = <<>>

\* C4 witness: candidates were split off the location and all of them
\* sanitized to absent
C4_Witness ==
    /\ status = 400
    /\ metric \in ClosedMetricSet
    /\ raw_locations # <<>>
    /\ clean_locations = <<>>

\* C5: for metric rainfall the resolver returns the rain object's 1h value
\* when it has a 1h entry, whatever the value; otherwise its 3h value when it
\* has a 3h entry; otherwise 0.0; and 0.0 when there is no rain object.
C5_RainfallPrefers1h ==
    (pc = "resolve_done" /\ metric = rainfall /\ owm.t = "dict") =>
        LET rain == Get(owm.d, "rain", PyNone)
        IN value = IF rain.t # "dict" THEN Num(0)
                   ELSE IF "1h" \in DOMAIN rain.d THEN rain.d["1h"]
                   ELSE IF "3h" \in DOMAIN rain.d THEN rain.d["3h"]
                   ELSE Num(0)

\* C6: for "How much rain in Berlin next week" extract_metrics yields metrics
\* ["rainfall"], a location that sanitizes to "Berlin", and time "next week".
C6_BerlinNextWeek ==
    (pc = "extract_done" /\ text = BerlinText) =>
        /\ extraction.metrics = <<rainfall>>
        /\ sanitize_location(extraction.location) = Berlin
        /\ extraction.time = <<"n","e","x","t"," ","w","e","e","k">>

\* the index of metric m in the declaration order of METRIC_KEYWORDS
DeclaredOrder == <<temperature, rainfall, humidity, wind_speed, pressure>>
DeclaredIndex(m) == CHOOSE k \in 1..Len(DeclaredOrder) : DeclaredOrder[k] = m

\* C7: the metrics list of extract_metrics has no duplicate, holds a metric
\* exactly when one of its patterns matches the lower-cased text, and lists
\* the metrics in the declaration order of METRIC_KEYWORDS.
C7_MetricsInDeclaredOrder ==
    pc = "extract_done" =>
        LET ms == extraction.metrics
        IN /\ \A i, j \in 1..Len(ms) : i < j => ms[i] # ms[j]
           /\ \A i \in 1..Len(ms) : ms[i] \in ClosedMetricSet
           /\ \A m \in ClosedMetricSet :
                 (\E i \in 1..Len(ms) : ms[i] = m)
                 <=> (\E k \in 1..Len(METRIC_KEYWORDS(m)) :
                         Search(METRIC_KEYWORDS(m)[k], Lower(text)))
           /\ \A i, j \in 1..Len(ms) : i < j => DeclaredIndex(ms[i]) < DeclaredIndex(ms[j])

\* C7 witness: pressure, rainfall and temperature are mentioned in that order
\* and listed in the declared order
C7_Witness ==
    /\ pc = "extract_done"
    /\ text = <<"h","p","a">> \o <<"r","a","i","n","y">> \o <<"T","e","m","p">>
    /\ extraction.metrics = <<temperature, rainfall, pressure>>

\* no piece of ps holds the word "and" between whitespace
NoAndInside(p) ==
    \A i \in 1..Len(p) :
        ~(/\ p[i] \in Whitespace
          /\ MatchLitAt(p, i + 1, <<"a","n","d">>)
          /\ i + 4 <= Len(p)
          /\ p[i + 4] \in Whitespace)

\* C8: split_locations splits on "and" between whitespace (any case), comma,
\* semicolon, slash and vertical bar, and returns only non-empty pieces without
\* leading or trailing whitespace, in source order; absent or empty input gives
\* the empty sequence; "Paris and Tokyo, London" gives Paris, Tokyo, London.
C8_SplitPieces ==
    pc = "split_done" =>
        /\ \A k \in 1..Len(pieces) :
              LET p == pieces[k]
              IN /\ p # <<>>
                 /\ p[1] \notin Whitespace
                 /\ p[Len(p)] \notin Whitespace
                 /\ \A i \in 1..Len(p) : p[i] \notin {",", ";", "/", "|"}
                 /\ NoAndInside(p)
        /\ OccursInOrder(pieces, location, 1)
        /\ (location = None \/ location = <<>>) => pieces = <<>>
        /\ location = ParisAndTokyoLondon => pieces = <<Paris, Tokyo, London>>

\* C8 witness: the three places of "Paris and Tokyo, London"
C8_Witness ==
    /\ pc = "split_done"
    /\ location = ParisAndTokyoLondon
    /\ Len(pieces) = 3

\* C9: sanitize_location never returns the empty string, and absent input
\* gives absent; so every location passed to the gateway, and every location
\* of a result entry, is a non-empty string, and the gateway call of a result's
\* location succeeded.
C9_NoEmptyLocation ==
    /\ pc = "sanitize_done" =>
          /\ sanitized # <<>>
          /\ location = None => sanitized = None
    /\ \A k \in 1..Len(clean_locations) : clean_locations[k] \notin {<<>>, None}
    /\ \A k \in 1..Len(gateway_log) : gateway_log[k].location \notin {<<>>, None}
    /\ \A k \in 1..Len(results) :
          /\ results[k].location \notin {<<>>, None}
          /\ \E j \in 1..Len(gateway_log) :
                /\ gateway_log[j].location = results[k].location
                /\ gateway_log[j].ok

\* C9 witness: a non-empty input of which nothing is left is reported absent
C9_Witness ==
    /\ pc = "sanitize_done"
    /\ location # None
    /\ Len(location) >= 2
    /\ sanitized = None

\* C10: a non-absent result of sanitize_location has no leading or trailing
\* whitespace, is not whitespace only, has no trailing comma, and holds no run
\* of two or more whitespace characters.
C10_FullyCleaned ==
    (pc = "sanitize_done" /\ sanitized # None) =>
        /\ sanitized # <<>>
        /\ sanitized[1] \notin Whitespace
        /\ sanitized[Len(sanitized)] \notin Whitespace
        /\ \E i \in 1..Len(sanitized) : sanitized[i] \notin Whitespace
        /\ sanitized[Len(sanitized)] # ","
        /\ \A i \in 1..(Len(sanitized) - 1) :
              ~(sanitized[i] \in Whitespace /\ sanitized[i + 1] \in Whitespace)

====
